---- MODULE Spec2Model ----
\* A model of the process-map component (src/src/components/process-map):
\*   - layoutNodesManually, the pure layout function (process-map.tsx 32-197),
\*   - CustomNode's size computation (custom-nodes.tsx 16-105),
\*   - the item list: filteredItems, itemsByPhase, handleItemClick,
\*   - the ProcessMap component as a state machine: store -> nodes/edges,
\*     the layout effect, the debounced ResizeObserver effect and teardown.
\*
\* Lengths are exact rationals, held as integers in units of 1/Sub pixel.
\* Sub is the least common denominator the code's arithmetic needs on whole-pixel
\* inputs: 64 (phase ratios are k/64), 100 (node multipliers are percentages,
\* the diagram height is a percentage) and 10 (size multipliers are tenths).
EXTENDS Integers, Sequences, FiniteSets, TLC

VARIABLES
    \* ---- layoutNodesManually / CustomNode as pure functions
    layoutInput,    \* [nodes, viewportWidth, viewportHeight, expandedView] or NoInput
    layoutResult,   \* LayoutNodesManually(layoutInput) once applied, else NoResult
    nodeProps,      \* CustomNode's props [type, sizeMultiplier] or NoInput
    nodeRender,     \* CustomNode's rendered [width, height] once applied, else NoResult
    \* ---- the item list of ProcessMap
    phases,         \* props.phases: the phase ids, in order
    items,          \* props.items
    searchTerm,     \* the store's searchTerm
    onItemClick,    \* whether props.onItemClick is supplied
    onItemSelect,   \* whether props.onItemSelect is supplied
    rendered,       \* the last render's [threw, filteredItems, itemsByPhase, columns]
    clicked,        \* the item handleItemClick was last called with, or NoInput
    calls,          \* the callback calls that handleItemClick call made, in order
    \* ---- the mounted ProcessMap component
    mounted,        \* the component is mounted (its resize effect is set up)
    initialized,    \* the store's initialized flag
    sharedNodes,    \* the store's nodes
    sharedEdges,    \* the store's edges
    nodes,          \* useNodesState
    edges,          \* useEdgesState
    dimensions,     \* useState({ width: 0, height: 0 })
    phaseBoundaries,\* useState([])
    expandedView,   \* the store's expandedView
    innerHeight,    \* window.innerHeight
    initDue,        \* the deps of the store -> nodes/edges effect changed
    layoutDue,      \* the deps of the layout effect changed since it last ran
    timeoutId,      \* the pending debounce timer with the size it captured, or NoTimer
    animationFrames,\* the requested animation-frame callbacks, each with its size
    sinceNotification, \* ms since the last ResizeObserver notification (saturating)
    \* history, kept for the properties
    lastMeasured,   \* the size the most recent notification measured
    lastUpdate,     \* the setDimensions call the step just taken made, or NoUpdate
    passesSinceChange, \* layout passes since dimensions, expandedView or the store changed
    layoutFailed    \* layoutNodesManually threw inside the layout effect

layoutVars == <<layoutInput, layoutResult, nodeProps, nodeRender>>

listVars ==
    <<phases, items, searchTerm, onItemClick, onItemSelect, rendered, clicked, calls>>

storeVars == <<initialized, sharedNodes, sharedEdges, expandedView, innerHeight>>

stateVars == <<nodes, edges, dimensions, phaseBoundaries, initDue, layoutDue>>

timerVars == <<timeoutId, animationFrames, sinceNotification, lastMeasured>>

resizeVars == <<timerVars, lastUpdate>>

historyVars == <<passesSinceChange, layoutFailed>>

componentVars == <<mounted, storeVars, stateVars, resizeVars, historyVars>>

vars == <<layoutVars, listVars, componentVars>>

-----------------------------------------------------------------------------
\* Numbers

Sub == 64 * 100 * 10
Px(n) == n * Sub

\* JavaScript's undefined, for a numeric field that is absent.
Undefined == 0 - 1

NoInput == [none |-> TRUE]
NoResult == [none |-> TRUE]

\* data.sizeMultiplier when the data carries none.
NoMultiplier == [absent |-> TRUE]

Max2(a, b) == IF a >= b THEN a ELSE b
Min2(a, b) == IF a <= b THEN a ELSE b

\* x / 2, x * m / 100 and x * t / 10. Every x these are applied to is a multiple
\* of the divisor (see Sub), so the integer division is the exact quotient.
Half(x) == x \div 2
Percent(x, m) == (x \div 100) * m
Tenths(x, t) == (x \div 10) * t

-----------------------------------------------------------------------------
\* layoutNodesManually (process-map.tsx 32-197)

IsWorkflowList(view) == view = "workflow-list"

defaultNodeWidth(view) ==
    IF IsWorkflowList(view) THEN Px(140) ELSE Px(200)

defaultNodeHeight(view) ==
    IF IsWorkflowList(view) THEN Px(30) ELSE Px(80)

phaseSpacing == Px(2)

squareSide(view) ==
    IF IsWorkflowList(view) THEN Px(100) ELSE Px(140)

\* 0.21875, 0.234375, 0.34375, 0.203125 as 64ths.
phaseWidthRatios ==
    [phase1 |-> 14, phase2 |-> 15, phase3 |-> 22, phase4 |-> 13]

\* Percentages applied to the x positions.
nodeMultipliers(view) ==
    [req    |-> 100,
     eval   |-> IF IsWorkflowList(view) THEN 99 ELSE 100,
     prov   |-> IF IsWorkflowList(view) THEN 90 ELSE 93,
     reeval |-> IF IsWorkflowList(view) THEN 113 ELSE 114,
     decide |-> IF IsWorkflowList(view) THEN 113 ELSE 114,
     end    |-> IF IsWorkflowList(view) THEN 99 ELSE 100]

\* Size multipliers in tenths: 0.8 is 8, 1 is 10.
nodeSizeMultipliers ==
    [req    |-> [width |-> 8, height |-> 4],
     eval   |-> [width |-> 8, height |-> 4],
     prov   |-> [width |-> 8, height |-> 4],
     reeval |-> [width |-> 8, height |-> 4],
     decide |-> [width |-> 6, height |-> 6],
     end    |-> [width |-> 8, height |-> 4]]

\* nodeSizeMultipliers[id] ?? { width: 0.7, height: 0.7 }
FallbackSizeMultiplier == [width |-> 7, height |-> 7]

\* The multipliers of lines 80-82 and 189-191.
SizeMultiplierOf(id, view) ==
    IF IsWorkflowList(view)
    THEN IF id \in DOMAIN nodeSizeMultipliers
         THEN nodeSizeMultipliers[id]
         ELSE FallbackSizeMultiplier
    ELSE [width |-> 10, height |-> 10]

\* Number.isFinite(node.width) ? node.width : defaultNodeWidth
RawWidth(node, view) ==
    IF node.width # Undefined THEN node.width ELSE defaultNodeWidth(view)

RawHeight(node, view) ==
    IF node.height # Undefined THEN node.height ELSE defaultNodeHeight(view)

NodeIds(nodeList) == {nodeList[i].id : i \in DOMAIN nodeList}

\* nodes.forEach(...) filling nodeSizeMap: a later node of the same id overwrites.
LastIndexOf(nodeList, id) ==
    CHOOSE i \in DOMAIN nodeList :
        /\ nodeList[i].id = id
        /\ \A j \in DOMAIN nodeList : nodeList[j].id = id => j <= i

NodeSizeMap(nodeList, view) ==
    [id \in NodeIds(nodeList) |->
        LET node == nodeList[LastIndexOf(nodeList, id)]
            multipliers == SizeMultiplierOf(id, view)
        IN  [width  |-> Tenths(RawWidth(node, view), multipliers.width),
             height |-> Tenths(RawHeight(node, view), multipliers.height)]]

\* usableWidth * phaseWidthRatios[phase]
PhaseWidthRoundedRatios(viewportWidth, phase) ==
    (viewportWidth \div 100) * [phase1 |-> 22, phase2 |-> 23, phase3 |-> 34, phase4 |-> 20][phase]

PhaseWidth(viewportWidth, phase) ==
    (viewportWidth \div 64) * phaseWidthRatios[phase]

PhaseBoundaries(viewportWidth) ==
    LET w(p) == PhaseWidth(viewportWidth, p)
        phase1Start == 0
        phase2Start == phase1Start + w("phase1")
        phase3Start == phase2Start + w("phase2")
        phase4Start == phase3Start + w("phase3")
    IN  << [id |-> "phase1", start |-> phase1Start, width |-> w("phase1")],
           [id |-> "phase2", start |-> phase2Start, width |-> w("phase2")],
           [id |-> "phase3", start |-> phase3Start, width |-> w("phase3")],
           [id |-> "phase4", start |-> phase4Start, width |-> w("phase4")] >>

\* The ids whose nodeSizeMap entry is dereferenced without a guard (lines 114,
\* 122, 130, 131, 152-154): a node list without one of them makes the call throw.
RequiredIds == {"req", "eval", "reeval", "decide", "end"}

PositionedIds == {"req", "eval", "prov", "reeval", "decide", "end"}

\* Lines 111-164: the positions before vertical centring.
ReqXUnclamped(x) == x
ReqX(x) == Max2(x, 0)

Positions(sizes, viewportWidth, view) ==
    LET pb == PhaseBoundaries(viewportWidth)
        mult == nodeMultipliers(view)
        side == squareSide(view)
        reqWidth == sizes["req"].width
        reqX == Percent(pb[1].start + Half(pb[1].width - reqWidth), mult["req"])
        evalWidth == sizes["eval"].width
        evalX == Percent(pb[2].start + Half(pb[2].width - evalWidth), mult["eval"])
        reevalWidth == sizes["reeval"].width
        decideWidth == sizes["decide"].width
        phase3Center == pb[3].start + Half(pb[3].width)
        loopWidth == side + phaseSpacing + reevalWidth
        provX == Percent(phase3Center - Half(loopWidth), mult["prov"])
        sharedCenterX == Percent(phase3Center, mult["reeval"])
        reevalX == sharedCenterX - Half(reevalWidth)
        decideX == sharedCenterX - Half(decideWidth)
        endWidth == sizes["end"].width
        decideHeight == sizes["decide"].height
        endHeight == sizes["end"].height
        endX == Min2(Percent(pb[4].start + Half(pb[4].width - endWidth), mult["end"]),
                     viewportWidth - endWidth)
        endY == side + Half(decideHeight - endHeight)
    IN  [req    |-> [x |-> ReqX(reqX), y |-> 0],
         eval   |-> [x |-> Max2(evalX, pb[2].start), y |-> 0],
         prov   |-> [x |-> provX, y |-> 0],
         reeval |-> [x |-> reevalX, y |-> 0],
         decide |-> [x |-> decideX, y |-> side],
         end    |-> [x |-> endX, y |-> endY]]

RECURSIVE MaxOver(_, _)
MaxOver(S, f) ==
    IF S = {} THEN 0
    ELSE LET e == CHOOSE e \in S : TRUE
         IN  Max2(f[e], MaxOver(S \ {e}, f))

\* Lines 166-172: the largest y + height over the positioned ids (at least 0).
MaxBottom(positions, sizes, view) ==
    MaxOver(PositionedIds,
            [id \in PositionedIds |->
                positions[id].y + (IF id \in DOMAIN sizes
                                   THEN sizes[id].height
                                   ELSE defaultNodeHeight(view))])

\* Line 173.
VerticalOffsetNotHalved(viewportHeight, maxBottom) ==
    Max2(viewportHeight - maxBottom, 0)
VerticalOffset(viewportHeight, maxBottom) ==
    Max2(Half(viewportHeight - maxBottom), 0)

\* Lines 176-194: one laid-out node.
LayoutNode(node, positions, verticalOffset, view) ==
    LET pos == IF node.id \in DOMAIN positions
               THEN positions[node.id] ELSE [x |-> 0, y |-> 0]
    IN  [node EXCEPT
            !.x = IF IsWorkflowList(view) /\ node.id = "decide"
                  THEN pos.x + Px(2) ELSE pos.x,
            !.y = pos.y + verticalOffset,
            !.sizeMultiplier = SizeMultiplierOf(node.id, view)]

\* The whole call. threw: a TypeError reading .width or .height of undefined.
LayoutNodesManually(nodeList, edgeList, viewportWidth, viewportHeight, view) ==
    IF ~(RequiredIds \subseteq NodeIds(nodeList))
    THEN [threw |-> TRUE]
    ELSE LET sizes == NodeSizeMap(nodeList, view)
             positions == Positions(sizes, viewportWidth, view)
             maxBottom == MaxBottom(positions, sizes, view)
             verticalOffset == VerticalOffset(viewportHeight, maxBottom)
         IN  [threw |-> FALSE,
              nodes |-> [i \in DOMAIN nodeList |->
                            LayoutNode(nodeList[i], positions, verticalOffset, view)],
              edges |-> edgeList,
              phaseBoundaries |-> PhaseBoundaries(viewportWidth),
              \* locals of the call, kept for the properties stated about them
              nodeSizeMap |-> sizes,
              maxBottom |-> maxBottom,
              verticalOffset |-> verticalOffset]

-----------------------------------------------------------------------------
\* CustomNode's size (custom-nodes.tsx 16-105)

\* data.sizeMultiplier?.width ?? 1 and data.sizeMultiplier?.height ?? 1, in tenths.
MultiplierOrFallback(sizeMultiplier, field) ==
    IF sizeMultiplier = NoMultiplier \/ sizeMultiplier[field] = Undefined
    THEN 7
    ELSE sizeMultiplier[field]

MultiplierOrDefault(sizeMultiplier, field) ==
    IF sizeMultiplier = NoMultiplier \/ sizeMultiplier[field] = Undefined
    THEN 10
    ELSE sizeMultiplier[field]

\* Lines 90-98, in twentieths: 1 + (m - 1) * 0.5 for process and startEnd.
EffectiveMultiplier(type, multiplier) ==
    IF type \in {"process", "startEnd"} THEN 10 + multiplier ELSE 2 * multiplier

baseWidths == [process |-> Px(176), startEnd |-> Px(112)]
baseHeights == [process |-> Px(64), startEnd |-> Px(64)]

CustomNodeSize(type, sizeMultiplier) ==
    LET widthMultiplier == MultiplierOrDefault(sizeMultiplier, "width")
        heightMultiplier == MultiplierOrDefault(sizeMultiplier, "height")
    IN  IF type = "decision"
        THEN [width  |-> Tenths(Px(112), widthMultiplier),
              height |-> Tenths(Px(112), heightMultiplier)]
        ELSE [width  |-> ((IF type \in DOMAIN baseWidths
                           THEN baseWidths[type] ELSE Px(160)) \div 20)
                         * EffectiveMultiplier(type, widthMultiplier),
              height |-> ((IF type \in DOMAIN baseHeights
                           THEN baseHeights[type] ELSE Px(64)) \div 20)
                         * EffectiveMultiplier(type, heightMultiplier)]

-----------------------------------------------------------------------------
\* The item list (process-map.tsx 233-269, 339-361, 498-513)

\* Strings are sequences of characters.
ToLowerCase(str) ==
    [i \in DOMAIN str |->
        CASE str[i] = "A" -> "a"
          [] str[i] = "B" -> "b"
          [] str[i] = "C" -> "c"
          [] OTHER -> str[i]]

\* String.prototype.includes
Includes(str, search) ==
    \E k \in 0..(Len(str) - Len(search)) :
        SubSeq(str, k + 1, k + Len(search)) = search

NoDescription == [absent |-> TRUE]

\* The predicate of items.filter (lines 237-239).
MatchesSearch(item, term) ==
    \/ Includes(ToLowerCase(item.title), ToLowerCase(term))
    \/ /\ item.description # NoDescription
       /\ Includes(ToLowerCase(item.description), ToLowerCase(term))

RECURSIVE Filter(_, _)
Filter(list, term) ==
    IF list = <<>> THEN <<>>
    ELSE (IF MatchesSearch(Head(list), term) THEN <<Head(list)>> ELSE <<>>)
         \o Filter(Tail(list), term)

\* filteredItems (lines 234-241): an empty searchTerm is falsy.
FilteredItems(list, term) ==
    IF term = <<>> THEN list ELSE Filter(list, term)

\* grouped is a plain object literal, so grouped[key] also finds what
\* Object.prototype defines: a key that is no own property but is one of these
\* names reads as an inherited function, which is truthy and has no push.
ObjectPrototypeNames == {"constructor", "toString", "valueOf", "hasOwnProperty"}

\* Lines 251-254: an (empty) own entry per phase id.
EmptyGroups(phaseIds) ==
    [id \in {phaseIds[i] : i \in DOMAIN phaseIds} |-> <<>>]

\* Lines 256-265, from item k on. Returns the groups, or Threw when
\* grouped[item.phaseId].push is not a function.
Threw == [threw |-> TRUE]

RECURSIVE GroupFrom(_, _, _)
GroupFrom(grouped, filtered, k) ==
    IF k > Len(filtered) THEN grouped
    ELSE LET item == filtered[k]
         IN  IF item.phaseId \in DOMAIN grouped
             THEN GroupFrom([grouped EXCEPT ![item.phaseId] = Append(@, item)],
                            filtered, k + 1)
             ELSE IF item.phaseId \in ObjectPrototypeNames
                  THEN Threw
                  ELSE GroupFrom(grouped, filtered, k + 1)

\* itemsByPhase (lines 244-269).
ItemsByPhase(phaseIds, filtered) ==
    GroupFrom(EmptyGroups(phaseIds), filtered, 1)

\* One phase column (lines 504-510): the items shown and whether the
\* "No items in this phase" note is.
Column(grouped, phaseId) ==
    [shown |-> grouped[phaseId], noItemsNote |-> Len(grouped[phaseId]) = 0]

\* A render of the list part of the component.
RenderList(phaseIds, list, term) ==
    LET filtered == FilteredItems(list, term)
        grouped == ItemsByPhase(phaseIds, filtered)
    IN  IF grouped = Threw
        THEN Threw
        ELSE [threw |-> FALSE,
              filteredItems |-> filtered,
              itemsByPhase |-> grouped,
              columns |-> [i \in DOMAIN phaseIds |-> Column(grouped, phaseIds[i])]]

\* handleItemClick (lines 339-349): the callback calls it makes, in order.
HandleItemClickSelectFirst(item, hasOnItemClick, hasOnItemSelect) ==
    (IF hasOnItemSelect THEN <<[fn |-> "onItemSelect", itemId |-> item.id]>> ELSE <<>>)
    \o (IF hasOnItemClick THEN <<[fn |-> "onItemClick", item |-> item]>> ELSE <<>>)

HandleItemClick(item, hasOnItemClick, hasOnItemSelect) ==
    (IF hasOnItemClick THEN <<[fn |-> "onItemClick", item |-> item]>> ELSE <<>>)
    \o (IF hasOnItemSelect THEN <<[fn |-> "onItemSelect", itemId |-> item.id]>> ELSE <<>>)

ListIdle ==
    /\ phases = <<>>
    /\ items = <<>>
    /\ searchTerm = <<>>
    /\ onItemClick = FALSE
    /\ onItemSelect = FALSE
    /\ rendered = NoResult
    /\ clicked = NoInput
    /\ calls = <<>>

-----------------------------------------------------------------------------
\* The ProcessMap component (process-map.tsx 199-337)

NoTimer == [none |-> TRUE]
NoSize == [none |-> TRUE]
NoUpdate == [none |-> TRUE]

\* setTimeout(..., 500)
DebounceDelay == 500

\* getViewHeights().diagramHeight through parseFloat (lines 287, 391-401).
DiagramHeightPercent(view) ==
    CASE view = "process-map"   -> 70
      [] view = "workflow-list" -> 30
      [] OTHER                  -> 50

\* The state of a component that does not exist (before mount).
ComponentIdle ==
    /\ mounted = FALSE
    /\ initialized = FALSE
    /\ sharedNodes = <<>>
    /\ sharedEdges = <<>>
    /\ nodes = <<>>
    /\ edges = <<>>
    /\ dimensions = [width |-> 0, height |-> 0]
    /\ phaseBoundaries = <<>>
    /\ expandedView = "balanced"
    /\ innerHeight = 0
    /\ initDue = FALSE
    /\ layoutDue = FALSE
    /\ timeoutId = NoTimer
    /\ animationFrames = <<>>
    /\ sinceNotification = 0
    /\ lastMeasured = NoSize
    /\ lastUpdate = NoUpdate
    /\ passesSinceChange = 0
    /\ layoutFailed = FALSE

-----------------------------------------------------------------------------
\* Inputs of the pure functions

MaxViewportWidth == 400

ViewportWidths == {Px(w) : w \in (1..MaxViewportWidth) \cup {640, 1280, 1920}}
ViewportHeights == {Px(h) : h \in {1, 117, 118, 119, 219, 220, 221, 600}}
ExpandedViews == {"process-map", "workflow-list", "balanced"}

\* A node as the store hands it over; width and height are what the diagram
\* library measured (whole pixels here), or Undefined before it has.
Node(id, width, height) ==
    [id |-> id, width |-> width, height |-> height,
     x |-> 0, y |-> 0, sizeMultiplier |-> NoMultiplier]

UnsizedNode(id) == Node(id, Undefined, Undefined)

SixNodes ==
    << UnsizedNode("req"), UnsizedNode("eval"), UnsizedNode("prov"),
       UnsizedNode("reeval"), UnsizedNode("decide"), UnsizedNode("end") >>

\* The six nodes at the sizes CustomNode renders them with multiplier 1.
SixMeasuredNodes ==
    << Node("req", Px(112), Px(64)), Node("eval", Px(176), Px(64)),
       Node("prov", Px(176), Px(64)), Node("reeval", Px(176), Px(64)),
       Node("decide", Px(112), Px(112)), Node("end", Px(112), Px(64)) >>

NodeLists ==
    { SixNodes,
      SixMeasuredNodes,
      Append(SixNodes, UnsizedNode("note")),      \* an id the tables do not know
      SubSeq(SixNodes, 1, 5),                     \* no end
      << SixNodes[1], SixNodes[2], SixNodes[4], SixNodes[5], SixNodes[6] >> } \* no prov

IsSixNodes(nodeList) == Len(nodeList) = 6 /\ NodeIds(nodeList) = PositionedIds

NodeTypes == {"process", "decision", "startEnd", "group"}
MultiplierValues == {Undefined, 4, 6, 7, 8, 10}
SizeMultipliers ==
    {NoMultiplier} \cup [width : MultiplierValues, height : MultiplierValues]

LayoutInit ==
    \/ /\ layoutInput \in [nodes : NodeLists,
                            viewportWidth : ViewportWidths,
                            viewportHeight : ViewportHeights,
                            expandedView : ExpandedViews]
       /\ nodeProps = NoInput
    \/ /\ layoutInput = NoInput
       /\ nodeProps \in [type : NodeTypes, sizeMultiplier : SizeMultipliers]

InitLayout ==
    /\ LayoutInit
    /\ layoutResult = NoResult
    /\ nodeRender = NoResult
    /\ ListIdle
    /\ ComponentIdle

ApplyLayout ==
    /\ layoutInput # NoInput
    /\ layoutResult = NoResult
    /\ layoutResult' = LayoutNodesManually(layoutInput.nodes, <<>>,
                                          layoutInput.viewportWidth,
                                          layoutInput.viewportHeight,
                                          layoutInput.expandedView)
    /\ UNCHANGED <<layoutInput, nodeProps, nodeRender, listVars, componentVars>>

RenderCustomNode ==
    /\ nodeProps # NoInput
    /\ nodeRender = NoResult
    /\ nodeRender' = CustomNodeSize(nodeProps.type, nodeProps.sizeMultiplier)
    /\ UNCHANGED <<layoutInput, layoutResult, nodeProps, listVars, componentVars>>

NextLayout == ApplyLayout \/ RenderCustomNode

SpecLayout == InitLayout /\ [][NextLayout]_vars

-----------------------------------------------------------------------------
\* The item list under all inputs

MaxItems == 2

PhaseLists ==
    { <<>>, <<"phase1">>, <<"phase1", "phase2">>, <<"phase2", "constructor">> }

\* "archived" is no phase of any list; "constructor" is one only of the last.
ItemPhaseIds == {"phase1", "phase2", "archived", "constructor"}

ItemTexts ==
    { [title |-> <<"A", "b">>, description |-> NoDescription],
      [title |-> <<"b">>, description |-> <<"c", "A">>],
      [title |-> <<"C">>, description |-> <<>>] }

SearchTerms == { <<>>, <<"a">>, <<"B">> }

ItemKinds == [text : ItemTexts, phaseId : ItemPhaseIds]

\* The item list of the given kinds; an item's id is its place in the list.
ItemsOf(kinds) ==
    [i \in DOMAIN kinds |->
        [id |-> i, title |-> kinds[i].text.title,
         description |-> kinds[i].text.description, phaseId |-> kinds[i].phaseId]]

ItemLists ==
    UNION { {ItemsOf(kinds) : kinds \in [1..n -> ItemKinds]} : n \in 0..MaxItems }

LayoutIdle ==
    /\ layoutInput = NoInput
    /\ layoutResult = NoResult
    /\ nodeProps = NoInput
    /\ nodeRender = NoResult

InitList ==
    /\ phases \in PhaseLists
    /\ items \in ItemLists
    /\ searchTerm \in SearchTerms
    /\ onItemClick \in BOOLEAN
    /\ onItemSelect \in BOOLEAN
    /\ rendered = NoResult
    /\ clicked = NoInput
    /\ calls = <<>>
    /\ LayoutIdle
    /\ ComponentIdle

\* The component renders its list.
Render ==
    /\ rendered = NoResult
    /\ rendered' = RenderList(phases, items, searchTerm)
    /\ UNCHANGED <<phases, items, searchTerm, onItemClick, onItemSelect, clicked, calls>>
    /\ UNCHANGED <<layoutVars, componentVars>>

\* The items a rendered list shows, each with defaultRenderItem's onClick.
ShownItems ==
    IF rendered = NoResult \/ rendered.threw THEN {}
    ELSE UNION { {rendered.columns[c].shown[k] : k \in DOMAIN rendered.columns[c].shown}
                 : c \in DOMAIN rendered.columns }

\* The user clicks a shown item: onClick={() => handleItemClick(item)}.
Click(item) ==
    /\ item \in ShownItems
    /\ clicked' = item
    /\ calls' = HandleItemClick(item, onItemClick, onItemSelect)
    /\ UNCHANGED <<phases, items, searchTerm, onItemClick, onItemSelect, rendered>>
    /\ UNCHANGED <<layoutVars, componentVars>>

NextList == Render \/ \E i \in DOMAIN items : Click(items[i])

SpecList == InitList /\ [][NextList]_vars

-----------------------------------------------------------------------------
\* The mounted component

MaxAnimationFrames == 1
TicksPerDelay == 2
MaxPasses == 2

TickMs == DebounceDelay \div TicksPerDelay

\* What the store's initialize() may load: nothing, the six nodes with or
\* without edges, or a node list without end.
StoreEdges == <<"req-eval", "eval-prov">>
StoreLoads ==
    { [nodes |-> <<>>, edges |-> <<>>],
      [nodes |-> SixNodes, edges |-> StoreEdges],
      [nodes |-> SixNodes, edges |-> <<>>],
      [nodes |-> SubSeq(SixNodes, 1, 5), edges |-> StoreEdges],
      [nodes |-> Append(SixNodes, UnsizedNode("note")), edges |-> StoreEdges] }

\* What getBoundingClientRect() may report for the container.
ContainerSizes ==
    { [width |-> 0, height |-> 0],
      [width |-> Px(640), height |-> Px(800)],
      [width |-> Px(1280), height |-> Px(801)] }

InnerHeights == {Px(400), Px(900)}

\* The component right after mount: every effect is still to run, the
\* ResizeObserver is connected.
Init ==
    /\ mounted = TRUE
    /\ initialized = FALSE
    /\ sharedNodes = <<>>
    /\ sharedEdges = <<>>
    /\ nodes = <<>>
    /\ edges = <<>>
    /\ dimensions = [width |-> 0, height |-> 0]
    /\ phaseBoundaries = <<>>
    /\ expandedView \in ExpandedViews
    /\ innerHeight \in InnerHeights
    /\ initDue = TRUE
    /\ layoutDue = TRUE
    /\ timeoutId = NoTimer
    /\ animationFrames = <<>>
    /\ sinceNotification = DebounceDelay
    /\ lastMeasured = NoSize
    /\ lastUpdate = NoUpdate
    /\ passesSinceChange = 0
    /\ layoutFailed = FALSE
    /\ LayoutIdle
    /\ ListIdle

\* Lines 227-231: the store loads its nodes and edges.
InitializeStore ==
    /\ mounted /\ ~initialized
    /\ initialized' = TRUE
    /\ \E load \in StoreLoads :
          sharedNodes' = load.nodes /\ sharedEdges' = load.edges
    /\ initDue' = TRUE
    /\ UNCHANGED <<mounted, expandedView, innerHeight, nodes, edges, dimensions,
                   phaseBoundaries, layoutDue, timerVars, historyVars>>
    /\ lastUpdate' = NoUpdate
    /\ UNCHANGED <<layoutVars, listVars>>

\* Lines 272-277: copy the store's nodes and edges into the component.
SyncFromStore ==
    /\ mounted /\ initDue
    /\ initDue' = FALSE
    /\ IF Len(sharedNodes) > 0
       THEN /\ nodes' = sharedNodes
            /\ edges' = sharedEdges
            /\ layoutDue' = TRUE
            /\ passesSinceChange' = 0
       ELSE UNCHANGED <<nodes, edges, layoutDue, passesSinceChange>>
    /\ UNCHANGED <<mounted, storeVars, dimensions, phaseBoundaries, timerVars,
                   layoutFailed>>
    /\ lastUpdate' = NoUpdate
    /\ UNCHANGED <<layoutVars, listVars>>

\* The condition of lines 281-286.
LayoutGuard ==
    /\ Len(nodes) > 0
    /\ Len(edges) > 0
    /\ dimensions.width > 0
    /\ dimensions.height > 0

\* Lines 287-289.
CalculatedHeight == Percent(innerHeight, DiagramHeightPercent(expandedView))

\* Whether setNodes(layoutedNodes) makes the layout effect due again:
\* layoutedNodes is a new array, and nodes is one of the effect's deps.
SetNodesRetriggersLayout == TRUE

\* Lines 280-306: the layout effect, run after a render in which one of
\* nodes, edges, dimensions, expandedView changed identity.
LayoutEffect ==
    /\ mounted /\ layoutDue
    /\ IF LayoutGuard
       THEN LET result == LayoutNodesManually(nodes, edges, dimensions.width,
                                              CalculatedHeight, expandedView)
            IN  IF result.threw
                THEN \* the error unmounts the component: its cleanup runs
                     /\ layoutFailed' = TRUE
                     /\ mounted' = FALSE
                     /\ timeoutId' = NoTimer
                     /\ layoutDue' = FALSE
                     /\ UNCHANGED <<nodes, edges, phaseBoundaries, passesSinceChange>>
                ELSE /\ nodes' = result.nodes
                     /\ edges' = result.edges
                     /\ phaseBoundaries' = result.phaseBoundaries
                     /\ layoutDue' = SetNodesRetriggersLayout
                     /\ passesSinceChange' = Min2(passesSinceChange + 1, MaxPasses)
                     /\ UNCHANGED <<mounted, timeoutId, layoutFailed>>
       ELSE /\ layoutDue' = FALSE
            /\ UNCHANGED <<mounted, nodes, edges, phaseBoundaries, timeoutId,
                           passesSinceChange, layoutFailed>>
    /\ UNCHANGED <<storeVars, dimensions, initDue, animationFrames,
                   sinceNotification, lastMeasured>>
    /\ lastUpdate' = NoUpdate
    /\ UNCHANGED <<layoutVars, listVars>>

\* The store's expandedView changes.
SetExpandedView(view) ==
    /\ mounted
    /\ view # expandedView
    /\ expandedView' = view
    /\ layoutDue' = TRUE
    /\ passesSinceChange' = 0
    /\ UNCHANGED <<mounted, initialized, sharedNodes, sharedEdges, innerHeight, nodes,
                   edges, dimensions, phaseBoundaries, initDue, timerVars, layoutFailed>>
    /\ lastUpdate' = NoUpdate
    /\ UNCHANGED <<layoutVars, listVars>>

\* Lines 313-330: the ResizeObserver callback measures the container, clears
\* the pending timer and starts a new one.
ResizeNotification(size) ==
    /\ mounted
    /\ timeoutId' = size
    /\ sinceNotification' = 0
    /\ lastMeasured' = size
    /\ UNCHANGED <<mounted, storeVars, stateVars, animationFrames, historyVars>>
    /\ lastUpdate' = NoUpdate
    /\ UNCHANGED <<layoutVars, listVars>>

\* Time passes.
Tick ==
    /\ sinceNotification < DebounceDelay
    /\ sinceNotification' = Min2(sinceNotification + TickMs, DebounceDelay)
    /\ UNCHANGED <<mounted, storeVars, stateVars, timeoutId, animationFrames,
                   lastMeasured, historyVars>>
    /\ lastUpdate' = NoUpdate
    /\ UNCHANGED <<layoutVars, listVars>>

\* Lines 318-328: the timer fires, no earlier than the delay after it was set,
\* and requests an animation frame.
TimerFires ==
    /\ timeoutId # NoTimer
    /\ sinceNotification >= DebounceDelay
    /\ Len(animationFrames) < MaxAnimationFrames
    /\ animationFrames' = Append(animationFrames, timeoutId)
    /\ timeoutId' = NoTimer
    /\ UNCHANGED <<mounted, storeVars, stateVars, sinceNotification, lastMeasured,
                   historyVars>>
    /\ lastUpdate' = NoUpdate
    /\ UNCHANGED <<layoutVars, listVars>>

\* const newDims = { width, height: height / 2 }
NewDims(size) == [width |-> size.width, height |-> Half(size.height)]

\* Lines 319-327: the animation-frame callback calls setDimensions. A state
\* update of an unmounted component is dropped.
RunAnimationFrame ==
    /\ animationFrames # <<>>
    /\ animationFrames' = Tail(animationFrames)
    /\ LET newDims == NewDims(Head(animationFrames))
       IN  /\ lastUpdate' = [dims |-> newDims, measured |-> lastMeasured,
                             quietFor |-> sinceNotification, mounted |-> mounted]
           /\ IF mounted /\ newDims # dimensions
              THEN /\ dimensions' = newDims
                   /\ layoutDue' = TRUE
                   /\ passesSinceChange' = 0
              ELSE UNCHANGED <<dimensions, layoutDue, passesSinceChange>>
    /\ UNCHANGED <<mounted, storeVars, nodes, edges, phaseBoundaries, initDue,
                   timeoutId, sinceNotification, lastMeasured, layoutFailed>>
    /\ UNCHANGED <<layoutVars, listVars>>

\* Lines 333-336: the resize effect's cleanup, on unmount.
Teardown ==
    /\ mounted
    /\ mounted' = FALSE
    /\ timeoutId' = NoTimer
    /\ UNCHANGED <<storeVars, stateVars, animationFrames, sinceNotification,
                   lastMeasured, historyVars>>
    /\ lastUpdate' = NoUpdate
    /\ UNCHANGED <<layoutVars, listVars>>

Next ==
    \/ InitializeStore
    \/ SyncFromStore
    \/ LayoutEffect
    \/ \E view \in ExpandedViews : SetExpandedView(view)
    \/ \E size \in ContainerSizes : ResizeNotification(size)
    \/ Tick
    \/ TimerFires
    \/ RunAnimationFrame
    \/ Teardown

Spec == Init /\ [][Next]_vars

-----------------------------------------------------------------------------
\* Properties of layoutNodesManually and CustomNode (under SpecLayout)

LayoutApplied ==
    /\ layoutInput # NoInput
    /\ layoutResult # NoResult
    /\ ~layoutResult.threw

SixLaidOut == LayoutApplied /\ IsSixNodes(layoutInput.nodes)

DefaultSixLaidOut == LayoutApplied /\ layoutInput.nodes = SixNodes

\* The layout size of a laid-out node: raw size times its size multiplier.
LayoutWidth(n) == layoutResult.nodeSizeMap[n.id].width
LayoutHeight(n) == layoutResult.nodeSizeMap[n.id].height

LaidOut == {layoutResult.nodes[i] : i \in DOMAIN layoutResult.nodes}

InsideViewport(n) ==
    /\ 0 <= n.x
    /\ n.x + LayoutWidth(n) <= layoutInput.viewportWidth
    /\ 0 <= n.y
    /\ n.y + LayoutHeight(n) <= layoutInput.viewportHeight

\* C1 as stated: for every viewport and every expandedView each of the six
\* laid-out nodes lies inside the viewport.
C1_EveryNodeInsideViewport ==
    SixLaidOut => \A n \in LaidOut : InsideViewport(n)

\* The smallest whole-pixel viewport that holds the six default-size nodes.
FitsDefaultNodes(viewportWidth, viewportHeight, view) ==
    IF IsWorkflowList(view)
    THEN viewportWidth >= Px(191) /\ viewportHeight >= Px(118)
    ELSE viewportWidth >= Px(348) /\ viewportHeight >= Px(220)

\* C1 amended: with the six nodes at their default raw sizes, in every viewport
\* no node is above the top edge, req and eval are not left of the left edge
\* and end's x is at most viewportWidth - width; and every node lies inside the
\* viewport once the viewport is at least 348 x 220 px (191 x 118 px in the
\* workflow-list view).
C1_InsideLargeEnoughViewport ==
    DefaultSixLaidOut =>
        /\ \A n \in LaidOut :
              /\ n.y >= 0
              /\ n.id \in {"req", "eval"} => n.x >= 0
              /\ n.id = "end" => n.x <= layoutInput.viewportWidth - LayoutWidth(n)
        /\ FitsDefaultNodes(layoutInput.viewportWidth, layoutInput.viewportHeight,
                            layoutInput.expandedView)
              => \A n \in LaidOut : InsideViewport(n)

\* A default-size layout in the smallest viewport that holds it.
C1_Witness ==
    /\ DefaultSixLaidOut
    /\ layoutInput.viewportWidth = Px(348)
    /\ layoutInput.viewportHeight = Px(220)
    /\ \A n \in LaidOut : InsideViewport(n)
    /\ \E n \in LaidOut : n.id = "decide" /\ n.y + LayoutHeight(n) = Px(220)

TopMost == CHOOSE y \in {n.y : n \in LaidOut} : \A n \in LaidOut : y <= n.y
BottomMost ==
    CHOOSE b \in {n.y + LayoutHeight(n) : n \in LaidOut} :
        \A n \in LaidOut : n.y + LayoutHeight(n) <= b
ContentHeight == BottomMost - layoutResult.verticalOffset

\* C10: the vertical offset is never negative; in a viewport at least as high
\* as the content the free space above the top-most node equals the free space
\* below the bottom-most node; in a lower viewport the offset is 0 and the
\* top-most node is at y = 0.
C10_VerticallyCentred ==
    SixLaidOut =>
        /\ layoutResult.verticalOffset >= 0
        /\ layoutInput.viewportHeight >= ContentHeight
              => TopMost = layoutInput.viewportHeight - BottomMost
        /\ layoutInput.viewportHeight < ContentHeight
              => layoutResult.verticalOffset = 0 /\ TopMost = 0

C10_Witness ==
    /\ SixLaidOut
    /\ layoutInput.viewportHeight > ContentHeight
    /\ layoutResult.verticalOffset > 0
    /\ TopMost = layoutInput.viewportHeight - BottomMost

\* The width and height CustomNode gives a node of this type at multiplier 1.
BaseSize(type) ==
    CASE type = "decision" -> [width |-> Px(112), height |-> Px(112)]
      [] type = "process"  -> [width |-> Px(176), height |-> Px(64)]
      [] type = "startEnd" -> [width |-> Px(112), height |-> Px(64)]
      [] OTHER             -> [width |-> Px(160), height |-> Px(64)]

Missing(sizeMultiplier, field) ==
    sizeMultiplier = NoMultiplier \/ sizeMultiplier[field] = Undefined

CustomNodeDefaultsToOne ==
    (nodeProps # NoInput /\ nodeRender # NoResult) =>
        /\ Missing(nodeProps.sizeMultiplier, "width")
              => nodeRender.width = BaseSize(nodeProps.type).width
        /\ Missing(nodeProps.sizeMultiplier, "height")
              => nodeRender.height = BaseSize(nodeProps.type).height

UnknownIds == {n \in LaidOut : n.id \notin DOMAIN nodeSizeMultipliers}

UsesMultiplier(n, tenths) ==
    /\ n.sizeMultiplier = [width |-> tenths, height |-> tenths]
    /\ LayoutWidth(n) * 10 = RawWidth(n, layoutInput.expandedView) * tenths
    /\ LayoutHeight(n) * 10 = RawHeight(n, layoutInput.expandedView) * tenths

-----------------------------------------------------------------------------
\* Properties of the item list (under SpecList)

Rendered == rendered # NoResult

PhaseIdSet == {phases[i] : i \in DOMAIN phases}

\* The items that pass the search filter, stated from the claim: all of them
\* for an empty term, else those whose lower-cased title or description
\* contains the lower-cased term.
PassesFilter(item) ==
    \/ searchTerm = <<>>
    \/ Includes(ToLowerCase(item.title), ToLowerCase(searchTerm))
    \/ /\ item.description # NoDescription
       /\ Includes(ToLowerCase(item.description), ToLowerCase(searchTerm))

\* Positions in the input list of the filtered items of one phase, ascending.
RECURSIVE SelectItems(_, _)
SelectItems(list, phaseId) ==
    IF list = <<>> THEN <<>>
    ELSE (IF PassesFilter(Head(list)) /\ Head(list).phaseId = phaseId
          THEN <<Head(list)>> ELSE <<>>)
         \o SelectItems(Tail(list), phaseId)

\* C5: after any render itemsByPhase has an entry for every phase id, and the
\* entry is the empty list when no filtered item has that phaseId, so that the
\* column shows "No items in this phase" rather than failing.
C5_EveryPhaseHasAnEntry ==
    Rendered =>
        /\ ~rendered.threw
        /\ \A i \in DOMAIN phases :
              /\ phases[i] \in DOMAIN rendered.itemsByPhase
              /\ (\A k \in DOMAIN items :
                     ~(PassesFilter(items[k]) /\ items[k].phaseId = phases[i]))
                   => /\ rendered.itemsByPhase[phases[i]] = <<>>
                      /\ rendered.columns[i].noItemsNote

\* C6: after any render every item of itemsByPhase[p] has phaseId = p with p a
\* phase id; every item that passes the filter and has a known phaseId is
\* exactly once in its own phase's list, in input order; an item of an unknown
\* phaseId is in no list and causes no error.
C6_GroupedByKnownPhase ==
    Rendered =>
        /\ ~rendered.threw
        /\ DOMAIN rendered.itemsByPhase = PhaseIdSet
        /\ \A p \in PhaseIdSet :
              rendered.itemsByPhase[p] = SelectItems(items, p)

CallsOf(fn) == {k \in DOMAIN calls : calls[k].fn = fn}

\* C7: handleItemClick(item) calls onItemClick(item) exactly once if it is
\* supplied and then onItemSelect(item.id) exactly once if it is supplied, in
\* that order, and makes no call for a callback that is not supplied.
C7_ClickNotifiesCallbacks ==
    clicked # NoInput =>
        /\ Cardinality(CallsOf("onItemClick")) = (IF onItemClick THEN 1 ELSE 0)
        /\ Cardinality(CallsOf("onItemSelect")) = (IF onItemSelect THEN 1 ELSE 0)
        /\ \A k \in CallsOf("onItemClick") : calls[k].item = clicked
        /\ \A k \in CallsOf("onItemSelect") : calls[k].itemId = clicked.id
        /\ \A k \in CallsOf("onItemClick"), m \in CallsOf("onItemSelect") : k < m
        /\ Len(calls) = Cardinality(CallsOf("onItemClick"))
                         + Cardinality(CallsOf("onItemSelect"))

\* The second of two items was clicked with both callbacks supplied.
C7_Witness ==
    /\ clicked # NoInput
    /\ clicked.id = 2
    /\ onItemClick /\ onItemSelect
    /\ calls = << [fn |-> "onItemClick", item |-> clicked],
                  [fn |-> "onItemSelect", itemId |-> 2] >>

-----------------------------------------------------------------------------
\* Properties of the mounted component (under Spec)

\* Every pending update, timer or requested animation frame, carries the size
\* the most recent notification measured.
PendingUpdatesAreLatest ==
    /\ timeoutId # NoTimer => timeoutId = lastMeasured
    /\ \A k \in DOMAIN animationFrames : animationFrames[k] = lastMeasured

C3_NoUpdateAfterTeardown ==
    /\ ~mounted => timeoutId = NoTimer
    /\ lastUpdate # NoUpdate => lastUpdate.mounted

\* C8: a layout pass runs only on page load or when dimensions or expandedView
\* change; the setNodes of a layout pass does not cause another pass: since
\* the last such change at most one pass has run.
C8_LayoutPassOnlyOnChange ==
    passesSinceChange <= 1

\* A step that carried out a layout pass: it published phase boundaries or
\* counted a pass.
LayoutPassStep ==
    \/ phaseBoundaries' # phaseBoundaries
    \/ passesSinceChange' > passesSinceChange

\* The ids layoutNodesManually computes no position for.
Unpositioned(nodeList) ==
    {i \in DOMAIN nodeList : nodeList[i].id \notin PositionedIds}

\* C11: a layout pass happens only in a state where nodes and edges are
\* non-empty and both dimensions are positive; in every other state the layout
\* effect leaves nodes, edges and phaseBoundaries unchanged; and whenever the
\* guard holds layoutNodesManually completes and returns a layout, a node id
\* it has no position for being placed at x = 0.
C11_LayoutPassOnlyUnderGuard ==
    [][ /\ LayoutPassStep => LayoutGuard
        /\ (LayoutEffect /\ ~LayoutGuard) => UNCHANGED <<nodes, edges, phaseBoundaries>>
        /\ (LayoutEffect /\ LayoutGuard) =>
              /\ ~layoutFailed'
              /\ mounted'
              /\ Len(nodes') = Len(nodes)
              /\ \A i \in Unpositioned(nodes) : nodes'[i].x = 0 ]_vars

====
